---------------------------- MODULE Spec2Model ----------------------------
(***************************************************************************)
(* A model of cdn-static-database: the n-gram inverted index               *)
(* (src/src/ngram.indice.ts, and its older compiled form                   *)
(* src/unnamed/part_000) and the query planner / executor (src/src/db.ts). *)
(*                                                                         *)
(* Texts are sequences of UTF-16 code units, tokens are texts of length    *)
(* gramLen.  A JavaScript Map is a sequence of <<key, value>> pairs in     *)
(* insertion order; a posting-list map is a function from the tokens it    *)
(* holds to their posting lists (the code only ever reads it by token or   *)
(* through the sorted keys getter).                                        *)
(***************************************************************************)
EXTENDS Integers, Sequences, FiniteSets, TLC

(***************************************************************************)
(* Bounds of the model.                                                    *)
(***************************************************************************)
MaxKey == 1
MaxAdds == 1
MaxChunk == 2
MaxShards == 2

Keys == 0..MaxKey

(***************************************************************************)
(* Program constants.                                                      *)
(***************************************************************************)
AUTO_LIMIT_FIND_PERCENT == 40
CHUNK_CAP_FACTOR == 10

\* Code units: " ", "B", "a", "b".
SP == 32
UB == 66
LA == 97
LB == 98

(***************************************************************************)
(* Generic helpers: sequences and insertion-ordered maps.                  *)
(***************************************************************************)
Range(s) == {s[i] : i \in DOMAIN s}

Min(a, b) == IF a <= b THEN a ELSE b

Reverse(s) == [i \in 1..Len(s) |-> s[Len(s) + 1 - i]]

RECURSIVE Flatten(_)
Flatten(ss) == IF ss = <<>> THEN <<>> ELSE Head(ss) \o Flatten(Tail(ss))

\* Map.prototype.has / get / set / delete on a sequence of <<key, value>>.
MapHas(m, k) == \E i \in DOMAIN m : m[i][1] = k

MapGet(m, k) == m[CHOOSE i \in DOMAIN m : m[i][1] = k][2]

MapSet(m, k, v) ==
    IF MapHas(m, k)
    THEN [i \in DOMAIN m |-> IF m[i][1] = k THEN <<k, v>> ELSE m[i]]
    ELSE Append(m, <<k, v>>)

MapDelete(m, k) == SelectSeq(m, LAMBDA e : e[1] # k)

\* `m.get(k) || 0`
MapGetOr0(m, k) == IF MapHas(m, k) THEN MapGet(m, k) ELSE 0

(***************************************************************************)
(* Tokenizer.                                                              *)
(***************************************************************************)
\* String.prototype.toLowerCase on one code unit.
ToLowerChar(c) == IF c >= 65 /\ c <= 90 THEN c + 32 ELSE c

ToLowerCase(v) == [i \in 1..Len(v) |-> ToLowerChar(v[i])]

\* v.split(" "): the words between single spaces, empty words included.
RECURSIVE SplitFrom(_, _)
SplitFrom(v, word) ==
    IF v = <<>> THEN <<word>>
    ELSE IF Head(v) = SP THEN <<word>> \o SplitFrom(Tail(v), <<>>)
    ELSE SplitFrom(Tail(v), Append(word, Head(v)))

Split(v) == SplitFrom(v, <<>>)

\* An nGram that stops one substring short.
NGramShort(n, word) ==
    IF Len(word) - n < 1 THEN <<>>
    ELSE [i \in 1..(Len(word) - n) |-> SubSeq(word, i, i + n - 1)]

\* nGram(gramLen)(word): every contiguous substring of length n, in order.
NGram(n, word) ==
    IF Len(word) - n + 1 < 1 THEN <<>>
    ELSE [i \in 1..(Len(word) - n + 1) |-> SubSeq(word, i, i + n - 1)]

tokenizr(opts, value) ==
    LET v == IF opts.toLowcase THEN ToLowerCase(value) ELSE value
        words == Split(v)
    IN Flatten([i \in 1..Len(words) |-> NGram(opts.gramLen, words[i])])

\* `Array.isArray(value) ? value.flatMap(v => tokenizr(v)) : tokenizr(value)`
\* A value is [isArray |-> TRUE, v |-> texts], or [isArray |-> FALSE, v |-> <<text>>]
\* for a plain string.
TokensOf(opts, value) ==
    IF value.isArray
    THEN Flatten([i \in 1..Len(value.v) |-> tokenizr(opts, value.v[i])])
    ELSE tokenizr(opts, value.v[1])

(***************************************************************************)
(* Inverted index: pure parts of NgramIndice.                              *)
(***************************************************************************)
\* a < b on JavaScript strings: lexicographic on code units.
RECURSIVE StrLess(_, _)
StrLess(a, b) ==
    IF b = <<>> THEN FALSE
    ELSE IF a = <<>> THEN TRUE
    ELSE IF Head(a) # Head(b) THEN Head(a) < Head(b)
    ELSE StrLess(Tail(a), Tail(b))

\* A posting-list map with token k set to list v (Map.prototype.set).
PutList(ind, k, v) == [x \in DOMAIN ind \cup {k} |-> IF x = k THEN v ELSE ind[x]]

EmptyIndex == [x \in {} |-> <<>>]

\* An add that starts the posting list of every token afresh.
RECURSIVE addTokensReplace(_, _, _)
addTokensReplace(ind, key, tokens) ==
    IF tokens = <<>> THEN ind
    ELSE addTokensReplace(PutList(ind, Head(tokens), <<key>>), key, Tail(tokens))

\* add(key, value): append key to the posting list of every token, in order.
RECURSIVE addTokens(_, _, _)
addTokens(ind, key, tokens) ==
    IF tokens = <<>> THEN ind
    ELSE LET token == Head(tokens)
             index == IF token \in DOMAIN ind THEN ind[token] ELSE <<>>
         IN addTokens(PutList(ind, token, Append(index, key)), key, Tail(tokens))

add(ind, opts, key, value) == addTokens(ind, key, TokensOf(opts, value))

\* The keys getter: the tokens of the map, sorted ascending.
RECURSIVE SortTokens(_)
SortTokens(S) ==
    IF S = {} THEN <<>>
    ELSE LET m == CHOOSE x \in S : \A y \in S \ {x} : StrLess(x, y)
         IN <<m>> \o SortTokens(S \ {m})

keys(ind) == SortTokens(DOMAIN ind)

\* The inner forEach of preFilter over one posting list, in closed form: every
\* id already counted gains its number of occurrences in ids, and the ids not yet
\* counted are appended in the order of their first occurrence.
CountIds(countResults, list) ==
    LET hits(k) == Cardinality({i \in DOMAIN list : list[i] = k})
        old == [i \in DOMAIN countResults |->
                  <<countResults[i][1], countResults[i][2] + hits(countResults[i][1])>>]
        firsts == SelectSeq([i \in DOMAIN list |-> i],
                            LAMBDA i : /\ ~MapHas(countResults, list[i])
                                       /\ \A j \in 1..(i - 1) : list[j] # list[i])
    IN old \o [n \in 1..Len(firsts) |-> <<list[firsts[n]], hits(list[firsts[n]])>>]

\* preFilter on a loaded index: Map<id, count> in first-hit order.
RECURSIVE preFilterFrom(_, _, _)
preFilterFrom(ind, tokens, countResults) ==
    IF tokens = <<>> THEN countResults
    ELSE LET token == Head(tokens)
             next == IF token \in DOMAIN ind
                     THEN CountIds(countResults, ind[token])
                     ELSE countResults
         IN preFilterFrom(ind, Tail(tokens), next)

preFilter(ind, tokens) == preFilterFrom(ind, tokens, <<>>)

\* A threshold rounded down to a whole number.
getLimitFloor(autoLimit, tokensLength, limit) ==
    IF autoLimit THEN <<(tokensLength * AUTO_LIMIT_FIND_PERCENT) \div 100, 1>> ELSE <<limit, 1>>

\* getLimit: the threshold as a fraction <<numerator, denominator>>
\* (tokensLength * 40 / 100 is not rounded by the code).
getLimit(autoLimit, tokensLength, limit) ==
    IF autoLimit THEN <<tokensLength * AUTO_LIMIT_FIND_PERCENT, 100>> ELSE <<limit, 1>>

\* postFilter: the ids whose count >= l, in the map's order.
postFilter(opts, countResults, tokens) ==
    LET l == getLimit(opts.actuationLimitAuto, Len(tokens), opts.actuationLimit)
        kept == SelectSeq(countResults, LAMBDA e : e[2] * l[2] >= l[1])
    IN [i \in 1..Len(kept) |-> kept[i][1]]

\* find(value) on a loaded index.
find(ind, opts, value) ==
    LET tokens == TokensOf(opts, value)
    IN postFilter(opts, preFilter(ind, tokens), tokens)

\* The reduce of findAll: add one shard's weights to sum.
RECURSIVE AddWeights(_, _)
AddWeights(sum, weights) ==
    IF weights = <<>> THEN sum
    ELSE LET key == Head(weights)[1]
             value == Head(weights)[2]
         IN AddWeights(MapSet(sum, key, MapGetOr0(sum, key) + value), Tail(weights))

RECURSIVE CombineAll(_, _)
CombineAll(sum, list) ==
    IF list = <<>> THEN sum ELSE CombineAll(AddWeights(sum, Head(list)), Tail(list))

\* A findAll that applies the threshold to each shard's weights on their own.
findAllPerShard(opts, shardList, tokens) ==
    Flatten([i \in 1..Len(shardList) |->
                postFilter(opts, preFilter(shardList[i], tokens), tokens)])

\* findAll(indices, value): Promise.all keeps the list in shard order.
findAllTokens(opts, shardList, tokens) ==
    LET list == [i \in 1..Len(shardList) |-> preFilter(shardList[i], tokens)]
    IN postFilter(opts, CombineAll(<<>>, list), tokens)

findAll(opts, shardList, value) == findAllTokens(opts, shardList, TokensOf(opts, value))

(***************************************************************************)
(* spread.  A shard is the posting-list map handed to deserialize; the     *)
(* walk carries {result, size, map} over the sorted tokens.                *)
(***************************************************************************)
\* value.splice(0, n): <<removed, left>>; a negative n removes nothing.
Splice0(value, n) ==
    LET c == IF n < 0 THEN 0 ELSE Min(n, Len(value))
    IN <<SubSeq(value, 1, c), SubSeq(value, c + 1, Len(value))>>

\* ngram.indice.ts: the while loop of the else branch.
RECURSIVE spreadWhile(_, _, _, _)
spreadWhile(st, key, value, chunkSize) ==
    IF value = <<>> THEN st
    ELSE LET sp == Splice0(value, chunkSize - st.size)
         IN spreadWhile([result |-> Append(st.result, PutList(st.map, key, sp[1])),
                         size |-> 0,
                         map |-> EmptyIndex],
                        key, sp[2], chunkSize)

\* A forEach body that cuts every list into slices of one entry.
spreadStepSlices(st, key, value, chunkSize) ==
    spreadWhile([st EXCEPT !.size = 0], key, value, 1)

\* ngram.indice.ts: the body of this.keys.forEach.
spreadStep(st, key, value, chunkSize) ==
    IF st.size + Len(value) <= chunkSize
    THEN [result |-> st.result,
          size |-> st.size + Len(value),
          map |-> PutList(st.map, key, value)]
    ELSE spreadWhile(st, key, value, chunkSize)

RECURSIVE spreadWalk(_, _, _, _)
spreadWalk(st, ks, ind, chunkSize) ==
    IF ks = <<>> THEN st
    ELSE spreadWalk(spreadStep(st, Head(ks), ind[Head(ks)], chunkSize),
                    Tail(ks), ind, chunkSize)

\* A spread that forgets the shard still being filled when the walk ends.
spreadNoTail(ind, chunkSize) ==
    spreadWalk([result |-> <<>>, size |-> 0, map |-> EmptyIndex],
               keys(ind), ind, chunkSize).result

\* ngram.indice.ts spread(chunkSize): the list of shard maps.
spread(ind, chunkSize) ==
    LET st == spreadWalk([result |-> <<>>, size |-> 0, map |-> EmptyIndex],
                         keys(ind), ind, chunkSize)
    IN IF st.size # 0 THEN Append(st.result, st.map) ELSE st.result

\* The compiled build (part_000): the while loop, capped at chunkSize * 10.
\* It splices the parent's own array, so the parent's list ends empty.
RECURSIVE spreadJsWhile(_, _, _, _)
spreadJsWhile(st, key, value, chunkSizeMax) ==
    IF value = <<>> THEN st
    ELSE LET sp == Splice0(value, chunkSizeMax - st.size)
         IN spreadJsWhile([result |-> Append(st.result, PutList(st.map, key, sp[1])),
                           size |-> 0,
                           map |-> EmptyIndex,
                           parent |-> PutList(st.parent, key, sp[2]),
                           shared |-> st.shared],
                          key, sp[2], chunkSizeMax)

\* part_000: the body of this.keys.forEach.
spreadJsStep(st, key, value, chunkSize) ==
    IF st.size >= chunkSize
    THEN [result |-> Append(st.result, st.map),
          size |-> Len(value),
          map |-> PutList(EmptyIndex, key, value),
          parent |-> st.parent,
          shared |-> st.shared \cup {<<Len(st.result) + 2, key>>}]
    ELSE IF st.size + Len(value) > chunkSize * CHUNK_CAP_FACTOR
    THEN spreadJsWhile(st, key, value, chunkSize * CHUNK_CAP_FACTOR)
    ELSE [result |-> st.result,
          size |-> st.size + Len(value),
          map |-> PutList(st.map, key, value),
          parent |-> st.parent,
          shared |-> st.shared \cup {<<Len(st.result) + 1, key>>}]

RECURSIVE spreadJsWalk(_, _, _)
spreadJsWalk(st, ks, chunkSize) ==
    IF ks = <<>> THEN st
    ELSE spreadJsWalk(spreadJsStep(st, Head(ks), st.parent[Head(ks)], chunkSize),
                      Tail(ks), chunkSize)

\* part_000 spread(chunkSize): [result |-> shard maps, parent |-> the parent's map
\* after, shared |-> the <<shard, token>> whose list is the parent's array itself:
\* `map.set(key, value)` and `new Map([[key, value]])` hand over the array that
\* this.indices.get(key) returned, into the map that becomes the next shard].
spreadJs(ind, chunkSize) ==
    LET st == spreadJsWalk([result |-> <<>>, size |-> 0, map |-> EmptyIndex, parent |-> ind,
                            shared |-> {}],
                           keys(ind), chunkSize)
    IN [result |-> IF st.size # 0 THEN Append(st.result, st.map) ELSE st.result,
        parent |-> st.parent,
        shared |-> st.shared]

(***************************************************************************)
(* State of one NgramIndice, its shards and one cursorAll iteration.       *)
(***************************************************************************)
VARIABLES
    indices,        \* this.indices of the parent index
    options,        \* this.options
    nAdds,          \* add calls made so far
    phase,          \* "build", "found", "spread", "added", "foundAll", "cursor"
    shards,         \* the shard maps returned by spread
    shared,         \* the <<shard, token>> whose list is the parent's own array
    query,          \* the value of the last find / findAll / cursorAll call
    found,          \* what find / findAll returned
    cTokens,        \* cursorAll: tokens
    count,          \* cursorAll: count
    promises,       \* cursorAll: $promises, "pending" | "resolved" | "never"
    results,        \* cursorAll: the weights each shard's preFilter promise resolves with
    winner,         \* the shard a waiting race resolved with, 0 if none
    combineWeights, \* cursorAll: combineWeights
    subResult,      \* cursorAll: subResult
    pc,             \* the consumer: "none", "idle", "loop", "waiting", "woken", "done"
    batches,        \* the batches next() has returned, in order
    merged,         \* the shards whose result the loop has merged, in order
    collection,     \* Db: the records of the primary index, by id
    dbpc,           \* Db.find: "off", "idle", "scan", "drain", "final", "done", "failed"
    qGiven,         \* find: criteria, as the caller passed it
    qCriteria,      \* find: criteria, as the planner leaves the object
    qSort,          \* find: sort, <<>> for undefined
    qSkip,          \* find: skip
    qLimit,         \* find: limit, 0 for undefined
    search,         \* find: search, the plan's {greed, missed}, its use of the cache, its cursors
    stream,         \* find: the keys search.result has still to deliver
    scanRest,       \* find: the records primaryIndice.cursor() has still to deliver
    caches,         \* find: the keys of search.caches
    ids,            \* find: ids
    iFind,          \* find: i
    result,         \* find: result
    delivered,      \* the keys search.result has delivered, in order
    stopped,        \* whether isEnough() ended the collection
    returned,       \* what find returned
    lazyIndices,    \* a lazily loaded index: this.indices
    isLoaded,       \* a lazily loaded index: options.isLoaded
    hasLoad,        \* a lazily loaded index: whether options.load was supplied
    loadCalls,      \* the invocations of options.load so far
    rejections,     \* the invocations of options.load that rejected so far
    qpc,            \* each query: "idle", "loading", "ready", "done", "failed"
    qValue,         \* each query: the value searched
    qSeen,          \* each query: the rejections that had happened when it started
    qResult,        \* each query: the keys returned
    tkOptions,      \* a tokenizr call: this.options
    tkValue,        \* a tokenizr call: value
    tkTokens,       \* a tokenizr call: the tokens returned
    tkDone          \* whether the tokenizr call has returned

ngVars == <<indices, options, nAdds, phase, shards, shared, query, found, cTokens, count,
            promises, results, winner, combineWeights, subResult, pc, batches, merged>>

cursorVars == <<cTokens, count, promises, results, winner, combineWeights, subResult, pc,
                batches, merged>>

dbVars == <<collection, dbpc, qGiven, qCriteria, qSort, qSkip, qLimit, search, stream, scanRest,
            caches, ids, iFind, result, delivered, stopped, returned>>

lzVars == <<lazyIndices, isLoaded, hasLoad, loadCalls, rejections, qpc, qValue, qSeen,
            qResult>>

tkVars == <<tkOptions, tkValue, tkTokens, tkDone>>

\* No tokenizr call is observed.
TokOff ==
    /\ tkOptions = [gramLen |-> 2, toLowcase |-> TRUE]
    /\ tkValue = <<>>
    /\ tkTokens = <<>>
    /\ tkDone = FALSE

\* No lazily loaded index is in use.
LazyOff ==
    /\ lazyIndices = <<>>
    /\ isLoaded = TRUE
    /\ hasLoad = FALSE
    /\ loadCalls = 0
    /\ rejections = 0
    /\ qpc = <<>>
    /\ qValue = <<>>
    /\ qSeen = <<>>
    /\ qResult = <<>>

\* search before buildIndexSearch has returned a plan.
NoPlan == [greed |-> FALSE, missed |-> FALSE, primary |-> FALSE, cursors |-> 0]

\* No Db is open.
DbOff ==
    /\ collection = <<>>
    /\ dbpc = "off"
    /\ qGiven = <<>>
    /\ qCriteria = <<>>
    /\ qSort = <<>>
    /\ qSkip = 0
    /\ qLimit = 0
    /\ search = NoPlan
    /\ stream = <<>>
    /\ scanRest = <<>>
    /\ caches = {}
    /\ ids = <<>>
    /\ iFind = 0
    /\ result = <<>>
    /\ delivered = <<>>
    /\ stopped = FALSE
    /\ returned = <<>>

T(s) == [isArray |-> FALSE, v |-> <<s>>]

\* The texts the model adds and queries.
\* "ab", "aBa" and ["ba", "a bab"].
Values ==
    { T(<<LA, LB>>), T(<<LA, UB, LA>>),
      [isArray |-> TRUE, v |-> << <<LB, LA>>, <<LA, SP, LB, LA, LB>> >>] }

\* The values find and findAll are asked for: those, and "a", which has no token.
QueryValues == Values \cup {T(<<LA>>)}

\* Constructor options: the automatic threshold, or a fixed one of 1 or 2
\* (2 is the constructor's default).
OptionChoices ==
    { [gramLen |-> 2, actuationLimit |-> 2, toLowcase |-> TRUE, actuationLimitAuto |-> TRUE],
      [gramLen |-> 2, actuationLimit |-> 1, toLowcase |-> TRUE, actuationLimitAuto |-> FALSE],
      [gramLen |-> 2, actuationLimit |-> 2, toLowcase |-> TRUE, actuationLimitAuto |-> FALSE] }

\* A list of n copies of key.
Repeat(key, n) == [i \in 1..n |-> key]

\* An index restored by deserialize(data, options) whose lists are longer than
\* the compiled build's cap of chunkSize * 10 at chunkSize 1: tokens "aa", "ab", "ba".
RestoredIndex ==
    PutList(PutList(PutList(EmptyIndex,
        <<LA, LA>>, Repeat(1, CHUNK_CAP_FACTOR + 1)),
        <<LA, LB>>, <<0>>),
        <<LB, LA>>, Repeat(1, CHUNK_CAP_FACTOR + 1))

InitNgram ==
    /\ indices \in {EmptyIndex, RestoredIndex}
    /\ options \in OptionChoices
    /\ nAdds = 0
    /\ phase = "build"
    /\ shards = <<>>
    /\ shared = {}
    /\ query = T(<<>>)
    /\ found = <<>>
    /\ cTokens = <<>>
    /\ count = 0
    /\ promises = <<>>
    /\ results = <<>>
    /\ winner = 0
    /\ combineWeights = <<>>
    /\ subResult = <<>>
    /\ pc = "none"
    /\ batches = <<>>
    /\ merged = <<>>
    /\ DbOff
    /\ LazyOff
    /\ TokOff

Add(key, value) ==
    /\ phase = "build"
    /\ nAdds < MaxAdds
    /\ indices' = add(indices, options, key, value)
    /\ nAdds' = nAdds + 1
    /\ UNCHANGED <<options, phase, shards, shared, query, found>>
    /\ UNCHANGED cursorVars
    /\ UNCHANGED dbVars
    /\ UNCHANGED lzVars
    /\ UNCHANGED tkVars

Find(value) ==
    /\ phase = "build"
    /\ query' = value
    /\ found' = find(indices, options, value)
    /\ phase' = "found"
    /\ UNCHANGED <<indices, options, nAdds, shards, shared>>
    /\ UNCHANGED cursorVars
    /\ UNCHANGED dbVars
    /\ UNCHANGED lzVars
    /\ UNCHANGED tkVars

Spread(chunkSize) ==
    /\ phase = "build"
    /\ shards' = spread(indices, chunkSize)
    /\ shared' = {}
    /\ phase' = "spread"
    /\ UNCHANGED <<indices, options, nAdds, query, found>>
    /\ UNCHANGED cursorVars
    /\ UNCHANGED dbVars
    /\ UNCHANGED lzVars
    /\ UNCHANGED tkVars

SpreadJs(chunkSize) ==
    /\ phase = "build"
    /\ LET r == spreadJs(indices, chunkSize)
       IN /\ shards' = r.result
          /\ shared' = r.shared
          /\ indices' = r.parent
    /\ phase' = "spread"
    /\ UNCHANGED <<options, nAdds, query, found>>
    /\ UNCHANGED cursorVars
    /\ UNCHANGED dbVars
    /\ UNCHANGED lzVars
    /\ UNCHANGED tkVars

\* add(key, value) on the parent after spread: index.push(key) goes to the
\* array this.indices.get(token) returns, which a shard holds too when spread
\* handed it over as it was.
AddAfterSpread(key, value) ==
    /\ phase = "spread"
    /\ indices' = add(indices, options, key, value)
    /\ shards' = [n \in DOMAIN shards |->
                    [token \in DOMAIN shards[n] |->
                        IF <<n, token>> \in shared THEN indices'[token] ELSE shards[n][token]]]
    /\ nAdds' = nAdds + 1
    /\ phase' = "added"
    /\ UNCHANGED <<options, shared, query, found>>
    /\ UNCHANGED cursorVars
    /\ UNCHANGED dbVars
    /\ UNCHANGED lzVars
    /\ UNCHANGED tkVars

FindAll(value) ==
    /\ phase = "spread"
    /\ query' = value
    /\ found' = findAll(options, shards, value)
    /\ phase' = "foundAll"
    /\ UNCHANGED <<indices, options, nAdds, shards, shared>>
    /\ UNCHANGED cursorVars
    /\ UNCHANGED dbVars
    /\ UNCHANGED lzVars
    /\ UNCHANGED tkVars

(***************************************************************************)
(* cursorAll.  Promise.race over $promises resolves with the first entry   *)
(* already resolved, in array order, or else with the first to resolve.    *)
(***************************************************************************)
\* `return r` as a filter verdict: the key coerced to a boolean.
Truthy(r) == r # 0

\* res.forEach((weight, key) => combineWeights.set(key, weight + value))
RECURSIVE mergeWeights(_, _)
mergeWeights(cw, res) ==
    IF res = <<>> THEN cw
    ELSE LET key == Head(res)[1]
             weight == Head(res)[2]
         IN mergeWeights(MapSet(cw, key, weight + MapGetOr0(cw, key)), Tail(res))

RECURSIVE deleteAll(_, _)
deleteAll(cw, rs) ==
    IF rs = <<>> THEN cw ELSE deleteAll(MapDelete(cw, Head(rs)), Tail(rs))

\* postFilter(...).filter(r => { combineWeights.delete(r); return r }), reversed.
emitFilter(rs) == Reverse(SelectSeq(rs, Truthy))

CursorAll(value) ==
    /\ phase = "spread"
    /\ Len(shards) <= MaxShards
    /\ phase' = "cursor"
    /\ query' = value
    /\ cTokens' = TokensOf(options, value)
    /\ count' = Len(shards)
    /\ promises' = [i \in 1..Len(shards) |-> "pending"]
    /\ results' = [i \in 1..Len(shards) |-> preFilter(shards[i], TokensOf(options, value))]
    /\ winner' = 0
    /\ combineWeights' = <<>>
    /\ subResult' = <<>>
    /\ pc' = "idle"
    /\ batches' = <<>>
    /\ merged' = <<>>
    /\ UNCHANGED <<indices, options, nAdds, shards, shared, found>>
    /\ UNCHANGED dbVars
    /\ UNCHANGED lzVars
    /\ UNCHANGED tkVars

\* A turn that leaves the completed promise in $promises.
ConsumeKeepPromise(index) ==
    LET cw == mergeWeights(combineWeights, results[index])
        passed == postFilter(options, cw, cTokens)
        sub == emitFilter(passed)
    IN /\ count' = count - 1
       /\ promises' = [promises EXCEPT ![index] = "resolved"]
       /\ combineWeights' = deleteAll(cw, passed)
       /\ subResult' = sub
       /\ merged' = Append(merged, index)
       /\ winner' = 0
       /\ IF Len(sub) # 0
          THEN batches' = Append(batches, sub) /\ pc' = "idle"
          ELSE batches' = batches /\ pc' = "loop"
       /\ UNCHANGED results

\* A turn that returns its batch even when the batch is empty.
ConsumeEmptyBatch(index) ==
    LET cw == mergeWeights(combineWeights, results[index])
        passed == postFilter(options, cw, cTokens)
        sub == emitFilter(passed)
    IN /\ count' = count - 1
       /\ promises' = [promises EXCEPT ![index] = "never"]
       /\ combineWeights' = deleteAll(cw, passed)
       /\ subResult' = sub
       /\ merged' = Append(merged, index)
       /\ winner' = 0
       /\ batches' = Append(batches, sub)
       /\ pc' = "idle"
       /\ UNCHANGED results

\* One turn of the while loop once the race has resolved with shard `index`.
Consume(index) ==
    LET cw == mergeWeights(combineWeights, results[index])
        passed == postFilter(options, cw, cTokens)
        sub == emitFilter(passed)
    IN /\ count' = count - 1
       /\ promises' = [promises EXCEPT ![index] = "never"]
       /\ combineWeights' = deleteAll(cw, passed)
       /\ subResult' = sub
       /\ merged' = Append(merged, index)
       /\ winner' = 0
       /\ IF Len(sub) # 0
          THEN batches' = Append(batches, sub) /\ pc' = "idle"
          ELSE batches' = batches /\ pc' = "loop"
       /\ UNCHANGED results

\* The consumer calls next(), after a batch or once more after done.
NextCall ==
    /\ pc \in {"idle", "done"}
    /\ subResult' = <<>>
    /\ pc' = "loop"
    /\ UNCHANGED <<indices, options, nAdds, phase, shards, shared, query, found, cTokens,
                   count, promises, results, winner, combineWeights, batches, merged>>
    /\ UNCHANGED dbVars
    /\ UNCHANGED lzVars
    /\ UNCHANGED tkVars

\* while (count > 0) with nothing left: { done: true }.
LoopDone ==
    /\ pc = "loop"
    /\ count <= 0
    /\ pc' = "done"
    /\ UNCHANGED <<indices, options, nAdds, phase, shards, shared, query, found, cTokens,
                   count, promises, results, winner, combineWeights, subResult,
                   batches, merged>>
    /\ UNCHANGED dbVars
    /\ UNCHANGED lzVars
    /\ UNCHANGED tkVars

\* await Promise.race($promises) with an entry already resolved: the first one.
LoopRace ==
    /\ pc = "loop"
    /\ count > 0
    /\ \E i \in DOMAIN promises :
          /\ promises[i] = "resolved"
          /\ \A j \in DOMAIN promises : promises[j] = "resolved" => i <= j
          /\ Consume(i)
    /\ UNCHANGED <<indices, options, nAdds, phase, shards, shared, query, found, cTokens>>
    /\ UNCHANGED dbVars
    /\ UNCHANGED lzVars
    /\ UNCHANGED tkVars

\* await Promise.race($promises) with every live entry still pending.
LoopWait ==
    /\ pc = "loop"
    /\ count > 0
    /\ \A i \in DOMAIN promises : promises[i] # "resolved"
    /\ pc' = "waiting"
    /\ UNCHANGED <<indices, options, nAdds, phase, shards, shared, query, found, cTokens,
                   count, promises, results, winner, combineWeights, subResult,
                   batches, merged>>
    /\ UNCHANGED dbVars
    /\ UNCHANGED lzVars
    /\ UNCHANGED tkVars

\* Shard i's preFilter promise resolves (the shard maps do not change during the
\* iteration, so its weights are those of the call); a race that was waiting
\* resolves with it.
ShardResolve(i) ==
    /\ phase = "cursor"
    /\ i \in DOMAIN promises
    /\ promises[i] = "pending"
    /\ promises' = [promises EXCEPT ![i] = "resolved"]
    /\ IF pc = "waiting"
       THEN pc' = "woken" /\ winner' = i
       ELSE UNCHANGED <<pc, winner>>
    /\ UNCHANGED <<indices, options, nAdds, phase, shards, shared, query, found, cTokens,
                   count, results, combineWeights, subResult, batches, merged>>
    /\ UNCHANGED dbVars
    /\ UNCHANGED lzVars
    /\ UNCHANGED tkVars

\* The loop resumes after the race it was waiting on.
RaceResume ==
    /\ pc = "woken"
    /\ Consume(winner)
    /\ UNCHANGED <<indices, options, nAdds, phase, shards, shared, query, found, cTokens>>
    /\ UNCHANGED dbVars
    /\ UNCHANGED lzVars
    /\ UNCHANGED tkVars

NextNgram ==
    \/ \E key \in Keys, value \in Values : Add(key, value)
    \/ \E value \in QueryValues : Find(value)
    \/ \E chunkSize \in 1..MaxChunk : Spread(chunkSize)
    \/ \E chunkSize \in 1..MaxChunk : SpreadJs(chunkSize)
    \/ \E key \in Keys, value \in Values : AddAfterSpread(key, value)
    \/ \E value \in QueryValues : FindAll(value)
    \/ \E value \in Values : CursorAll(value)
    \/ NextCall
    \/ LoopDone
    \/ LoopRace
    \/ LoopWait
    \/ \E i \in 1..MaxShards : ShardResolve(i)
    \/ RaceResume

vars == <<ngVars, dbVars, lzVars, tkVars>>

Spec == InitNgram /\ [][NextNgram]_vars

(***************************************************************************)
(* The query planner and executor (db.ts).                                 *)
(*                                                                         *)
(* A record is [id, continent, country]; the primary collection maps the   *)
(* ids 0 .. MaxRec - 1 to records.  A criteria object is the sequence of   *)
(* its entries in Object.entries order; an entry is                        *)
(*   [key, kind, lit, sub]  with kind "lit" (a literal value lit),         *)
(*   "obj" (an object value, sub = <<criteria>>) or "arr" (an array of     *)
(*   criteria, sub).  A sort spec is a sequence of <<field, order>>;       *)
(*   <<>> stands for no sort, limit 0 for no limit.                        *)
(***************************************************************************)
MaxRec == 2
MaxSkip == 1
MaxLimit == 2
CHUNK_SIZE_FIND_DEFAULT == 20

Ids == 0..(MaxRec - 1)

FieldValues == {1, 2}

Collections ==
    {[k \in Ids |-> [id |-> k, continent |-> f[k][1], country |-> f[k][2]]] :
        f \in [Ids -> FieldValues \X FieldValues]}

comparableOperators == {"$eq", "$gt", "$gte", "$in", "$lt", "$lte", "$ne", "$nin", "$regex"}

logicalOperators == {"$and", "$or"}

\* mingo isOperator: the key starts with "$"; these are the "$" keys of the model.
isOperator(key) == key \in comparableOperators \cup logicalOperators \cup {"$text"}

\* No path: context?.path at the root.
NoPath == "undefined"

\* new Schema("id", primary, [...]): the registered (index, path) pairs, the
\* primary index under idAttr.
SchemaIndices ==
    << [indice |-> "primary", path |-> "id"],
       [indice |-> "text", path |-> "$text"],
       [indice |-> "simple", path |-> "continent"] >>

\* The constructor's customOperators: the "$" paths that are neither comparable
\* nor logical.
customOperators ==
    {SchemaIndices[n].path : n \in {n \in DOMAIN SchemaIndices :
        /\ isOperator(SchemaIndices[n].path)
        /\ SchemaIndices[n].path \notin comparableOperators
        /\ SchemaIndices[n].path \notin logicalOperators}}

\* schema.indices.find(o => o.path === key): its position, 0 when there is none.
FindByPath(key) ==
    IF \E n \in DOMAIN SchemaIndices : SchemaIndices[n].path = key
    THEN CHOOSE n \in DOMAIN SchemaIndices :
            /\ SchemaIndices[n].path = key
            /\ \A m \in DOMAIN SchemaIndices : SchemaIndices[m].path = key => n <= m
    ELSE 0

\* schema.indices.filter(i => i.path === key).pop(): the last one, 0 when none.
FindLastByPath(key) ==
    IF \E n \in DOMAIN SchemaIndices : SchemaIndices[n].path = key
    THEN CHOOSE n \in DOMAIN SchemaIndices :
            /\ SchemaIndices[n].path = key
            /\ \A m \in DOMAIN SchemaIndices : SchemaIndices[m].path = key => m <= n
    ELSE 0

\* indice.testIndice(operator, value): the operators a range index serves natively.
IndiceServes(indice, op) ==
    /\ indice \in {"primary", "simple"}
    /\ op \in {"$eq", "$lt", "$gt"}

\* Db.testIndice
testIndice(o, key, path) == o.path = path /\ IndiceServes(o.indice, key)

\* schema.indices.find(o => this.testIndice(o, key, value, path)), 0 when none.
FindServing(key, path) ==
    IF \E n \in DOMAIN SchemaIndices : testIndice(SchemaIndices[n], key, path)
    THEN CHOOSE n \in DOMAIN SchemaIndices :
            /\ testIndice(SchemaIndices[n], key, path)
            /\ \A m \in DOMAIN SchemaIndices :
                  testIndice(SchemaIndices[m], key, path) => n <= m
    ELSE 0

\* A comparison operator applied to a field value.
OpTest(op, fieldValue, value) ==
    CASE op = "$eq" -> fieldValue = value
      [] op = "$lt" -> fieldValue < value
      [] op = "$gt" -> fieldValue > value
      [] op = "$ne" -> fieldValue # value
      [] OTHER -> FALSE

\* Criteria entries.
Lit(key, value) == [key |-> key, kind |-> "lit", lit |-> value, sub |-> <<>>]

Obj(key, criterion) == [key |-> key, kind |-> "obj", lit |-> 0, sub |-> <<criterion>>]

Arr(key, criterions) == [key |-> key, kind |-> "arr", lit |-> 0, sub |-> criterions]

\* mingo.Query(criteria).test(record).  Inside the object value of a field the
\* keys are comparison operators on that field; a field the record lacks
\* equals nothing.
RECURSIVE QueryTest(_, _, _)
QueryTest(crit, rec, field) ==
    \A n \in DOMAIN crit :
        LET e == crit[n] IN
        CASE e.key = "$and" /\ e.kind = "arr" ->
                \A j \in DOMAIN e.sub : QueryTest(e.sub[j], rec, field)
          [] e.key = "$or" /\ e.kind = "arr" ->
                \E j \in DOMAIN e.sub : QueryTest(e.sub[j], rec, field)
          [] e.key \in comparableOperators ->
                field \in DOMAIN rec /\ OpTest(e.key, rec[field], e.lit)
          [] e.kind = "obj" /\ ~isOperator(e.key) -> QueryTest(e.sub[1], rec, e.key)
          [] e.kind = "lit" /\ ~isOperator(e.key) ->
                e.key \in DOMAIN rec /\ rec[e.key] = e.lit
          [] OTHER -> FALSE

\* Stable in-memory sort of records by a sort spec (mingo cursor.sort).
Before(sort, a, b) ==
    \E n \in DOMAIN sort :
        /\ \A m \in 1..(n - 1) : a[sort[m][1]] = b[sort[m][1]]
        /\ sort[n][2] * a[sort[n][1]] < sort[n][2] * b[sort[n][1]]

RECURSIVE InsertSorted(_, _, _)
InsertSorted(sort, sorted, rec) ==
    IF sorted = <<>> THEN <<rec>>
    ELSE IF Before(sort, rec, Head(sorted)) THEN <<rec>> \o sorted
    ELSE <<Head(sorted)>> \o InsertSorted(sort, Tail(sorted), rec)

RECURSIVE SortRecords(_, _)
SortRecords(sort, recs) ==
    IF recs = <<>> THEN <<>>
    ELSE InsertSorted(sort, SortRecords(sort, SubSeq(recs, 1, Len(recs) - 1)), recs[Len(recs)])

Take(seq, n) == SubSeq(seq, 1, Min(n, Len(seq)))

Drop(seq, n) == SubSeq(seq, n + 1, Len(seq))

\* The keys an index cursor yields over the collection coll, in order:
\*   primary  the ids whose id passes the operator, by id;
\*   simple   the ids whose continent passes the operator, by continent then id;
\*   text     the ids whose country or continent carries the searched text
\*            (a fuzzy hit, so a candidate only), by id.
\* A cursor without a value traverses the whole index in the order asked.
IdSeq == [k \in 1..MaxRec |-> k - 1]

RecordsOf(coll) == [k \in 1..MaxRec |-> coll[k - 1]]

IndiceField(indice) == IF indice = "primary" THEN "id" ELSE "continent"

indexCursor(coll, indice, hasValue, value, op, order) ==
    IF indice = "text"
    THEN SelectSeq(IdSeq, LAMBDA k :
            ~hasValue \/ coll[k].country = value \/ coll[k].continent = value)
    ELSE LET hits == SelectSeq(RecordsOf(coll), LAMBDA r :
                        ~hasValue \/ OpTest(op, r[IndiceField(indice)], value))
             ordered == SortRecords(<< <<IndiceField(indice), order>> >>, hits)
         IN  [n \in DOMAIN ordered |-> ordered[n].id]

\* Db.indiceCursor: operator defaults to "$eq", sort to 1 (0 stands for undefined).
indiceCursor(coll, staged) ==
    indexCursor(coll, staged.indice, staged.hasValue, staged.value,
                IF staged.op = "" THEN "$eq" ELSE staged.op,
                IF staged.order = 0 THEN 1 ELSE staged.order)

\* intersectAsyncIterable: the keys present in every stream, in the order of
\* the first; no stream, no key.
intersectAsyncIterable(streams) ==
    IF streams = <<>> THEN <<>>
    ELSE SelectSeq(streams[1], LAMBDA k : \A n \in DOMAIN streams : k \in Range(streams[n]))

\* Map.set on a map keyed by the index instance, as a sequence of staged
\* lookups in insertion order: a second lookup on an index replaces the first.
StageSet(staged, entry) ==
    IF \E n \in DOMAIN staged : staged[n].indice = entry.indice
    THEN [n \in DOMAIN staged |->
            IF staged[n].indice = entry.indice THEN entry ELSE staged[n]]
    ELSE Append(staged, entry)

\* sortIndices.get(indice) || {}: the order the sort asks of that index, 0 for none.
OrderOf(sortIndices, indice) ==
    IF \E n \in DOMAIN sortIndices : sortIndices[n].indice = indice
    THEN (CHOOSE e \in Range(sortIndices) : e.indice = indice).order
    ELSE 0

\* The sort handling of buildIndexSearch: the indexes covering a sort field.
RECURSIVE SortIndices(_, _)
SortIndices(sort, acc) ==
    IF sort = <<>> THEN acc
    ELSE LET n == FindByPath(Head(sort)[1]) IN
         SortIndices(Tail(sort),
            IF n = 0 THEN acc
            ELSE StageSet(acc, [indice |-> SchemaIndices[n].indice,
                                path |-> SchemaIndices[n].path,
                                hasValue |-> FALSE, value |-> 0, op |-> "",
                                order |-> Head(sort)[2]]))

\* greed after the sort handling: a sort was given and none of its fields has
\* an index.
SortGreed(sort) ==
    /\ sort # <<>>
    /\ \A n \in DOMAIN sort : FindByPath(sort[n][1]) = 0

\* buildIndexSearch and the closure it returns, invoked.  st carries
\*   indices  the staged lookups, subs the results of the nested plans,
\*   crit     the criteria as the planner leaves it (custom operators deleted).
\* The plan is [keys, greed, missed, paths, primary, cursors, crit]: keys is what
\* the merged stream will deliver, primary whether a cursor of the plan runs
\* through the primary index and so fills the record cache, cursors the number
\* of index cursors the plan created.
RECURSIVE SumCursors(_)
SumCursors(subs) ==
    IF subs = <<>> THEN 0 ELSE Head(subs).cursors + SumCursors(Tail(subs))

RECURSIVE buildIndexSearch(_, _, _, _, _)
RECURSIVE buildEntries(_, _, _, _, _)
buildEntries(coll, entries, st, sort, path) ==
    IF entries = <<>> THEN st
    ELSE
    LET e == Head(entries)
        sortIndices == SortIndices(sort, <<>>)
        next ==
            IF e.key \in logicalOperators /\ e.kind = "arr"
            THEN LET subIt == [j \in DOMAIN e.sub |->
                                  buildIndexSearch(coll, e.sub[j], sort, NoPath, FALSE)]
                 IN  [st EXCEPT !.crit = Append(@,
                         [e EXCEPT !.sub = [j \in DOMAIN e.sub |-> subIt[j].crit]])]
            ELSE IF e.key \in customOperators
            THEN LET n == FindLastByPath(e.key) IN
                 IF n = 0 THEN st
                 ELSE [st EXCEPT !.indices = StageSet(@,
                          [indice |-> SchemaIndices[n].indice, path |-> SchemaIndices[n].path,
                           hasValue |-> TRUE, value |-> e.lit, op |-> "", order |-> 0])]
            ELSE IF isOperator(e.key)
            THEN LET n == FindServing(e.key, path) IN
                 IF n = 0 THEN [st EXCEPT !.crit = Append(@, e)]
                 ELSE [st EXCEPT
                          !.crit = Append(@, e),
                          !.indices = StageSet(@,
                             [indice |-> SchemaIndices[n].indice, path |-> SchemaIndices[n].path,
                              hasValue |-> TRUE, value |-> e.lit, op |-> e.key,
                              order |-> OrderOf(sortIndices, SchemaIndices[n].indice)])]
            ELSE IF e.kind = "obj"
            THEN LET sub == buildIndexSearch(coll, e.sub[1], sort, e.key, FALSE) IN
                 [st EXCEPT !.crit = Append(@, [e EXCEPT !.sub = <<sub.crit>>]),
                            !.subs = Append(@, sub)]
            ELSE LET n == FindByPath(e.key) IN
                 IF n = 0 THEN [st EXCEPT !.crit = Append(@, e)]
                 ELSE [st EXCEPT
                          !.crit = Append(@, e),
                          !.indices = StageSet(@,
                             [indice |-> SchemaIndices[n].indice, path |-> SchemaIndices[n].path,
                              hasValue |-> TRUE, value |-> e.lit, op |-> "$eq",
                              order |-> OrderOf(sortIndices, SchemaIndices[n].indice)])]
    IN  buildEntries(coll, Tail(entries), next, sort, path)

buildIndexSearch(coll, criteria, sort, path, isRoot) ==
    LET st == buildEntries(coll, criteria, [indices |-> <<>>, subs |-> <<>>, crit |-> <<>>],
                           sort, path)
        sortIndices == SortIndices(sort, <<>>)
        greed == SortGreed(sort)
        simpleIterable == [n \in DOMAIN st.indices |-> indiceCursor(coll, st.indices[n])]
        subGreed == \A n \in DOMAIN st.subs : st.subs[n].greed
        missed == \A n \in DOMAIN st.subs : st.subs[n].missed
        subIterable == [n \in DOMAIN st.subs |-> st.subs[n].keys]
        paths == {st.indices[n].path : n \in DOMAIN st.indices}
                    \cup UNION {st.subs[n].paths : n \in DOMAIN st.subs}
        sortedStaged == SelectSeq(sortIndices, LAMBDA o : o.path \notin paths /\ isRoot)
        sortedIterable == [n \in DOMAIN sortedStaged |-> indiceCursor(coll, sortedStaged[n])]
    IN  [keys |-> intersectAsyncIterable(simpleIterable \o sortedIterable \o subIterable),
         greed |-> greed /\ subGreed,
         missed |-> sortedStaged = <<>> /\ st.indices = <<>> /\ missed,
         paths |-> paths,
         primary |-> \/ \E n \in DOMAIN st.indices : st.indices[n].indice = "primary"
                     \/ \E n \in DOMAIN sortedStaged : sortedStaged[n].indice = "primary"
                     \/ \E n \in DOMAIN st.subs : st.subs[n].primary,
         cursors |-> Len(simpleIterable) + Len(sortedIterable)
                        + SumCursors(st.subs),
         crit |-> st.crit]

(***************************************************************************)
(* Db.find, one action per await: the plan, each batch of the full-scan    *)
(* cursor or of the candidate stream, the flush at the end of the stream,  *)
(* and the finalization.                                                   *)
(***************************************************************************)
\* The criteria and sorts find is called with.
CriteriaChoices ==
    { <<>>,
      <<Lit("country", 1)>>,
      <<Lit("not", 1)>>,
      <<Lit("continent", 1)>>,
      <<Obj("continent", <<Lit("$lt", 2)>>)>>,
      <<Obj("id", <<Lit("$lt", 1)>>)>>,
      <<Lit("continent", 1), Lit("country", 2)>>,
      <<Lit("$text", 1), Lit("continent", 1)>>,
      <<Lit("continent", 1), Obj("country", <<Lit("$ne", 1)>>)>>,
      <<Arr("$and", << <<Lit("continent", 1)>>, <<Lit("country", 2)>> >>)>>,
      <<Arr("$or", << <<Lit("$text", 1)>>, <<Lit("continent", 2)>> >>)>>,
      <<Arr("$and", << <<Lit("$text", 1)>>, <<Lit("continent", 2)>> >>)>>,
      <<Obj("$and", <<Lit("continent", 1)>>)>> }

SortChoices ==
    { <<>>,
      << <<"continent", 1>> >>,
      << <<"country", -1>> >>,
      << <<"country", -1>>, <<"continent", 1>> >> }

\* The inverted index is not part of a Db run.
NgramOff ==
    /\ indices = EmptyIndex
    /\ options = [gramLen |-> 2, actuationLimit |-> 2, toLowcase |-> TRUE,
                  actuationLimitAuto |-> FALSE]
    /\ nAdds = 0
    /\ phase = "off"
    /\ shards = <<>>
    /\ shared = {}
    /\ query = T(<<>>)
    /\ found = <<>>
    /\ cTokens = <<>>
    /\ count = 0
    /\ promises = <<>>
    /\ results = <<>>
    /\ winner = 0
    /\ combineWeights = <<>>
    /\ subResult = <<>>
    /\ pc = "none"
    /\ batches = <<>>
    /\ merged = <<>>

InitDb ==
    /\ NgramOff
    /\ LazyOff
    /\ TokOff
    /\ collection \in Collections
    /\ dbpc = "idle"
    /\ qGiven = <<>>
    /\ qCriteria = <<>>
    /\ qSort = <<>>
    /\ qSkip = 0
    /\ qLimit = 0
    /\ search = NoPlan
    /\ stream = <<>>
    /\ scanRest = <<>>
    /\ caches = {}
    /\ ids = <<>>
    /\ iFind = 0
    /\ result = <<>>
    /\ delivered = <<>>
    /\ stopped = FALSE
    /\ returned = <<>>

\* new mingo.Query(criteria): a combinator whose value is not an array is
\* rejected when the query is compiled.
RECURSIVE queryCompiles(_)
queryCompiles(crit) ==
    \A n \in DOMAIN crit :
        /\ crit[n].key \in logicalOperators => crit[n].kind = "arr"
        /\ \A j \in DOMAIN crit[n].sub : queryCompiles(crit[n].sub[j])

\* const isEnough = () => limit && i === limit && !search.greed
isEnough(i) == qLimit # 0 /\ i = qLimit /\ ~search.greed

\* primaryIndice.find(searchIds): the records of the keys, in their order.
primaryFind(searchIds) == [n \in DOMAIN searchIds |-> collection[searchIds[n]]]

\* The inner loop of the full scan over one batch; st is [i, result, stop].
RECURSIVE scanLoop(_, _)
scanLoop(values, st) ==
    IF values = <<>> THEN st
    ELSE IF QueryTest(qCriteria, Head(values), NoPath) /\ st.i >= qSkip
    THEN LET st1 == [st EXCEPT !.i = @ + 1, !.result = Append(@, Head(values))] IN
         IF isEnough(st1.i) THEN [st1 EXCEPT !.stop = TRUE]
         ELSE scanLoop(Tail(values), st1)
    ELSE scanLoop(Tail(values), st)

\* The loop that trusts the index: a record is kept without query.test.
RECURSIVE hydrateLoopNoTest(_, _)
hydrateLoopNoTest(values, st) ==
    IF values = <<>> THEN st
    ELSE LET st1 == [st EXCEPT !.i = @ + 1,
                               !.result = IF st.i + 1 >= qSkip
                                          THEN Append(@, Head(values)) ELSE @] IN
         IF isEnough(st1.i) THEN [st1 EXCEPT !.stop = TRUE]
         ELSE hydrateLoopNoTest(Tail(values), st1)

\* The loop over hydrated (or cached) records; st is [i, result, stop].
RECURSIVE hydrateLoop(_, _)
hydrateLoop(values, st) ==
    IF values = <<>> THEN st
    ELSE IF QueryTest(qCriteria, Head(values), NoPath)
    THEN LET st1 == [st EXCEPT !.i = @ + 1,
                               !.result = IF st.i + 1 >= qSkip
                                          THEN Append(@, Head(values)) ELSE @] IN
         IF isEnough(st1.i) THEN [st1 EXCEPT !.stop = TRUE]
         ELSE hydrateLoop(Tail(values), st1)
    ELSE hydrateLoop(Tail(values), st)

\* The assignments of find up to its first await, given the plan; the query
\* is compiled from the criteria the planner has left.
findPlanned(plan, criteria, sort, skip, limit) ==
    /\ qCriteria' = plan.crit
    /\ search' = [greed |-> plan.greed, missed |-> plan.missed, primary |-> plan.primary,
                   cursors |-> plan.cursors]
    /\ stream' = IF plan.missed THEN <<>> ELSE plan.keys
    /\ scanRest' = IF plan.missed THEN RecordsOf(collection) ELSE <<>>
    /\ dbpc' = IF ~queryCompiles(plan.crit) THEN "failed"
               ELSE IF plan.missed THEN "scan" ELSE "drain"
    /\ qGiven' = criteria
    /\ qSort' = sort
    /\ qSkip' = skip
    /\ qLimit' = limit
    /\ caches' = {}
    /\ ids' = <<>>
    /\ iFind' = 0
    /\ result' = <<>>
    /\ delivered' = <<>>
    /\ stopped' = FALSE
    /\ UNCHANGED <<collection, returned>>
    /\ UNCHANGED ngVars
    /\ UNCHANGED lzVars
    /\ UNCHANGED tkVars

\* find up to its first await: the plan; the loop over search.caches, which no
\* cursor has filled yet, passes over nothing.
DbFind(criteria, sort, skip, limit) ==
    /\ dbpc = "idle"
    /\ findPlanned(buildIndexSearch(collection, criteria, sort, NoPath, TRUE),
                   criteria, sort, skip, limit)

\* for await (const values of primaryIndice.cursor()): one batch of n records.
ScanBatch(n) ==
    /\ dbpc = "scan"
    /\ n \in 1..Len(scanRest)
    /\ LET st == scanLoop(Take(scanRest, n), [i |-> iFind, result |-> result, stop |-> FALSE])
       IN /\ iFind' = st.i
          /\ result' = st.result
          /\ stopped' = (stopped \/ st.stop)
    /\ scanRest' = Drop(scanRest, n)
    /\ UNCHANGED <<collection, dbpc, qGiven, qCriteria, qSort, qSkip, qLimit, search, stream,
                   caches, ids, delivered, returned>>
    /\ UNCHANGED ngVars
    /\ UNCHANGED lzVars
    /\ UNCHANGED tkVars

\* The full-scan cursor is exhausted.
ScanDone ==
    /\ dbpc = "scan"
    /\ scanRest = <<>>
    /\ dbpc' = "final"
    /\ UNCHANGED <<collection, qGiven, qCriteria, qSort, qSkip, qLimit, search, stream, scanRest,
                   caches, ids, iFind, result, delivered, stopped, returned>>
    /\ UNCHANGED ngVars
    /\ UNCHANGED lzVars
    /\ UNCHANGED tkVars

\* The chunk find hydrates at a time.
chunkSizeOf(limit) == IF limit # 0 THEN limit ELSE CHUNK_SIZE_FIND_DEFAULT

\* for await (const subIds of search.result): one batch of n keys.  A batch that
\* came through the primary index left its records in search.caches.
PullBatch(n) ==
    /\ dbpc = "drain"
    /\ n \in 1..Len(stream)
    /\ LET subIds == Take(stream, n)
           cached == IF search.primary THEN caches \cup Range(subIds) ELSE caches
           all == ids \o subIds
           searchIds == SelectSeq(all, LAMBDA id : id \notin cached)
           values == primaryFind(Take(searchIds, chunkSizeOf(qLimit)))
           st == hydrateLoop(values, [i |-> iFind, result |-> result, stop |-> FALSE])
       IN /\ caches' = cached
          /\ delivered' = delivered \o subIds
          /\ IF Len(all) >= chunkSizeOf(qLimit)
             THEN /\ iFind' = st.i
                  /\ result' = st.result
                  /\ stopped' = st.stop
                  /\ ids' = <<>>
                  /\ dbpc' = IF st.stop THEN "final" ELSE "drain"
             ELSE /\ ids' = all
                  /\ UNCHANGED <<iFind, result, stopped, dbpc>>
    /\ stream' = Drop(stream, n)
    /\ UNCHANGED <<collection, qGiven, qCriteria, qSort, qSkip, qLimit, search, scanRest, returned>>
    /\ UNCHANGED ngVars
    /\ UNCHANGED lzVars
    /\ UNCHANGED tkVars

\* The stream is exhausted: if (ids.length) the rest is hydrated whole.
StreamEnd ==
    /\ dbpc = "drain"
    /\ stream = <<>>
    /\ LET st == hydrateLoop(primaryFind(ids),
                             [i |-> iFind, result |-> result, stop |-> FALSE])
       IN /\ iFind' = st.i
          /\ result' = st.result
          /\ stopped' = st.stop
    /\ dbpc' = "final"
    /\ UNCHANGED <<collection, qGiven, qCriteria, qSort, qSkip, qLimit, search, stream, scanRest,
                   caches, ids, delivered, returned>>
    /\ UNCHANGED ngVars
    /\ UNCHANGED lzVars
    /\ UNCHANGED tkVars

\* mingo's cursor applies its stages in the order they were called: sort, limit, skip.
finalize(res, sort, skip, limit, greed) ==
    LET sorted == IF sort # <<>> /\ greed THEN SortRecords(sort, res) ELSE res
        limited == IF limit # 0 /\ greed THEN Take(sorted, limit) ELSE sorted
    IN  IF skip # 0 /\ greed THEN Drop(limited, skip) ELSE limited

Finalize ==
    /\ dbpc = "final"
    /\ returned' = finalize(result, qSort, qSkip, qLimit, search.greed)
    /\ dbpc' = "done"
    /\ UNCHANGED <<collection, qGiven, qCriteria, qSort, qSkip, qLimit, search, stream, scanRest,
                   caches, ids, iFind, result, delivered, stopped>>
    /\ UNCHANGED ngVars
    /\ UNCHANGED lzVars
    /\ UNCHANGED tkVars

NextDb ==
    \/ \E criteria \in CriteriaChoices, sort \in SortChoices,
          skip \in 0..MaxSkip, limit \in 0..MaxLimit : DbFind(criteria, sort, skip, limit)
    \/ \E n \in 1..MaxRec : ScanBatch(n)
    \/ ScanDone
    \/ \E n \in 1..MaxRec : PullBatch(n)
    \/ StreamEnd
    \/ Finalize

SpecDb == InitDb /\ [][NextDb]_vars

(***************************************************************************)
(* A lazily loaded index: NgramIndice constructed with isLoaded and load,  *)
(* and queries on it that overlap.  A query is find(value): preFilter      *)
(* awaits this.load(), then counts, then postFilter.                       *)
(***************************************************************************)
MaxQueries == 2

Queries == 1..MaxQueries

LazyOptions ==
    [gramLen |-> 2, actuationLimit |-> 1, toLowcase |-> TRUE, actuationLimitAuto |-> FALSE]

\* The data options.load resolves with: the index of add(0, "ab"), add(1, "aBa").
LoadedData ==
    add(add(EmptyIndex, LazyOptions, 0, T(<<LA, LB>>)), LazyOptions, 1, T(<<LA, UB, LA>>))

\* A load that answers an index without a load function as if it were loaded.
loadStepNoThrow(loaded, supplied) ==
    IF loaded THEN "return"
    ELSE IF supplied THEN "call"
    ELSE "return"

\* The branch load() takes before its first await.
loadStep(loaded, supplied) ==
    IF loaded THEN "return"
    ELSE IF supplied THEN "call"
    ELSE "throw"

InitLazy ==
    /\ NgramOff
    /\ DbOff
    /\ TokOff
    /\ isLoaded \in BOOLEAN
    /\ hasLoad \in BOOLEAN
    /\ lazyIndices = IF isLoaded THEN LoadedData ELSE EmptyIndex
    /\ loadCalls = 0
    /\ rejections = 0
    /\ qpc = [q \in Queries |-> "idle"]
    /\ qValue = [q \in Queries |-> T(<<>>)]
    /\ qSeen = [q \in Queries |-> 0]
    /\ qResult = [q \in Queries |-> <<>>]

\* find(value) up to the await in load(): options.load is invoked, or load()
\* returns, or it throws.
QueryStart(q, value) ==
    /\ qpc[q] = "idle"
    /\ LET step == loadStep(isLoaded, hasLoad)
       IN /\ qpc' = [qpc EXCEPT ![q] = CASE step = "return" -> "ready"
                                         [] step = "call" -> "loading"
                                         [] OTHER -> "failed"]
          /\ loadCalls' = IF step = "call" THEN loadCalls + 1 ELSE loadCalls
    /\ qValue' = [qValue EXCEPT ![q] = value]
    /\ qSeen' = [qSeen EXCEPT ![q] = rejections]
    /\ UNCHANGED <<lazyIndices, isLoaded, hasLoad, rejections, qResult>>
    /\ UNCHANGED <<ngVars, dbVars, tkVars>>

\* A rejection after which the index counts as loaded.
LoadRejectMarksLoaded(q) ==
    /\ qpc[q] = "loading"
    /\ qpc' = [qpc EXCEPT ![q] = "failed"]
    /\ rejections' = rejections + 1
    /\ isLoaded' = TRUE
    /\ UNCHANGED <<lazyIndices, hasLoad, loadCalls, qValue, qSeen, qResult>>
    /\ UNCHANGED <<ngVars, dbVars, tkVars>>

\* options.load rejects: the await in load() throws, and so do preFilter and find.
LoadReject(q) ==
    /\ qpc[q] = "loading"
    /\ qpc' = [qpc EXCEPT ![q] = "failed"]
    /\ rejections' = rejections + 1
    /\ UNCHANGED <<lazyIndices, isLoaded, hasLoad, loadCalls, qValue, qSeen, qResult>>
    /\ UNCHANGED <<ngVars, dbVars, tkVars>>

\* options.load resolves with {data}: this.indices = new Map(data), isLoaded = true.
LoadResolve(q) ==
    /\ qpc[q] = "loading"
    /\ lazyIndices' = LoadedData
    /\ isLoaded' = TRUE
    /\ qpc' = [qpc EXCEPT ![q] = "ready"]
    /\ UNCHANGED <<hasLoad, loadCalls, rejections, qValue, qSeen, qResult>>
    /\ UNCHANGED <<ngVars, dbVars, tkVars>>

\* The rest of preFilter and postFilter, on the index as it is by then.
QueryFinish(q) ==
    /\ qpc[q] = "ready"
    /\ qResult' = [qResult EXCEPT ![q] = find(lazyIndices, LazyOptions, qValue[q])]
    /\ qpc' = [qpc EXCEPT ![q] = "done"]
    /\ UNCHANGED <<lazyIndices, isLoaded, hasLoad, loadCalls, rejections, qValue, qSeen>>
    /\ UNCHANGED <<ngVars, dbVars, tkVars>>

NextLazy ==
    \/ \E q \in Queries, value \in QueryValues : QueryStart(q, value)
    \/ \E q \in Queries : LoadReject(q)
    \/ \E q \in Queries : LoadResolve(q)
    \/ \E q \in Queries : QueryFinish(q)

SpecLazy == InitLazy /\ [][NextLazy]_vars

(***************************************************************************)
(* tokenizr on its own: an index constructed with a gram length and the    *)
(* case option, and calls of tokenizr(value) on texts over " ", "B", "a",  *)
(* "b".                                                                    *)
(***************************************************************************)
MaxText == 5
MaxGram == 3

RECURSIVE TextsOfLen(_)
TextsOfLen(n) ==
    IF n = 0 THEN {<<>>}
    ELSE {Append(t, c) : t \in TextsOfLen(n - 1), c \in {SP, UB, LA, LB}}

Texts == UNION {TextsOfLen(n) : n \in 0..MaxText}

InitTok ==
    /\ NgramOff
    /\ DbOff
    /\ LazyOff
    /\ tkOptions \in [gramLen : 1..MaxGram, toLowcase : BOOLEAN]
    /\ tkValue \in Texts
    /\ tkTokens = <<>>
    /\ tkDone = FALSE

\* this.tokenizr(value), without preTokenizr and postTokenizr.
Tokenize ==
    /\ ~tkDone
    /\ tkTokens' = tokenizr(tkOptions, tkValue)
    /\ tkDone' = TRUE
    /\ UNCHANGED <<tkOptions, tkValue>>
    /\ UNCHANGED <<ngVars, dbVars, lzVars>>

NextTok == Tokenize

SpecTok == InitTok /\ [][NextTok]_vars

(***************************************************************************)
(* The scheduling the claims about cursorAll assume: every shard query     *)
(* resolves, the consumer keeps calling next(), the event loop runs.       *)
(***************************************************************************)
SpecFair ==
    /\ Spec
    /\ WF_vars(NextCall)
    /\ WF_vars(LoopDone)
    /\ WF_vars(LoopRace)
    /\ WF_vars(LoopWait)
    /\ WF_vars(RaceResume)
    /\ \A i \in 1..MaxShards : WF_vars(ShardResolve(i))

(***************************************************************************)
(* Properties of the inverted index.                                       *)
(***************************************************************************)
Emitted == Flatten(batches)

\* C1: when cursorAll is exhausted, the set of keys over all its batches is the
\* set of keys findAll returns for the same shards and value, key 0 included.
C1_CursorAllEqualsFindAll ==
    pc = "done" => Range(Emitted) = Range(findAll(options, shards, query))

\* C2: over one iteration of cursorAll no key is emitted twice, in one batch or
\* in two.
C2_NoKeyEmittedTwice ==
    phase = "cursor" => Len(Emitted) = Cardinality(Range(Emitted))

\* C3: a started cursorAll iteration reaches done, and by then every shard has
\* been merged exactly once: k completions, each shard once, none raced again.
C3_CursorTerminates ==
    /\ (phase = "cursor") ~> (pc = "done")
    /\ [](pc = "done" =>
            /\ Len(merged) = Len(shards)
            /\ Range(merged) = DOMAIN shards
            /\ count = 0
            /\ \A i \in DOMAIN promises : promises[i] = "never")

C3_Witness ==
    /\ pc = "done"
    /\ Len(shards) = 2
    /\ merged = <<2, 1>>
    /\ Len(batches) >= 1

\* The posting list of token over a list of shards, shard after shard.
ListOver(shardList, token) ==
    Flatten([i \in 1..Len(shardList) |->
                IF token \in DOMAIN shardList[i] THEN shardList[i][token] ELSE <<>>])

TokensOver(shardList) == UNION {DOMAIN shardList[i] : i \in 1..Len(shardList)}

\* C4: spread loses and duplicates nothing: for every token, its lists over the
\* shards, concatenated in shard order, are its list in the index before the call
\* (so the same keys with the same multiplicities), and the shards hold no other token.
C4_SpreadComplete ==
    [][(phase = "build" /\ phase' = "spread") =>
          /\ TokensOver(shards') = DOMAIN indices
          /\ \A token \in DOMAIN indices : ListOver(shards', token) = indices[token]]_vars

\* A token whose list was cut over two shards, and a shard holding two tokens.
C4_Witness ==
    /\ phase = "spread"
    /\ \E token \in TokensOver(shards) : \E i, j \in DOMAIN shards :
          /\ i < j
          /\ token \in DOMAIN shards[i] /\ shards[i][token] # <<>>
          /\ token \in DOMAIN shards[j] /\ shards[j][token] # <<>>
    /\ \E i \in DOMAIN shards : Cardinality(DOMAIN shards[i]) >= 2

\* How often key occurs in the posting lists of the tokens, a repeated token
\* counted each time it occurs.
Occurrences(ind, tokens, key) ==
    Cardinality(UNION {{<<i, j>> : j \in {j \in DOMAIN ind[tokens[i]] : ind[tokens[i]][j] = key}} :
                          i \in {i \in DOMAIN tokens : tokens[i] \in DOMAIN ind}})

MeetsThreshold(opts, n, c) ==
    IF opts.actuationLimitAuto
    THEN c * 100 >= n * AUTO_LIMIT_FIND_PERCENT
    ELSE c >= opts.actuationLimit

\* C10: find returns exactly the keys that have an accumulated count (occur in the
\* posting list of some query token) and whose count is >= the threshold:
\* n * 40 / 100 under actuationLimitAuto, actuationLimit otherwise.
C10_FindThreshold ==
    phase = "found" =>
        LET tokens == TokensOf(options, query)
        IN Range(found) =
             {k \in Keys : /\ Occurrences(indices, tokens, k) >= 1
                           /\ MeetsThreshold(options, Len(tokens), Occurrences(indices, tokens, k))}

\* A key is returned although one of the query's tokens never had it.
C10_Witness ==
    /\ phase = "found"
    /\ options.actuationLimitAuto
    /\ \E k \in Range(found) : \E i \in DOMAIN TokensOf(options, query) :
          LET token == TokensOf(options, query)[i]
          IN token \notin DOMAIN indices \/ k \notin Range(indices[token])

\* The weight of key summed over the shards.
CombinedWeight(shardList, tokens, key) ==
    Cardinality(UNION {{<<x[1], x[2], j>> :
                           j \in {j \in DOMAIN shardList[x[1]][tokens[x[2]]] :
                                      shardList[x[1]][tokens[x[2]]][j] = key}} :
                       x \in {x \in (DOMAIN shardList) \X (DOMAIN tokens) :
                                  tokens[x[2]] \in DOMAIN shardList[x[1]]}})

\* C11: findAll returns exactly the keys whose weight, summed over all shards,
\* is positive and meets the threshold; the threshold is applied to the sum,
\* never to one shard's share.
C11_FindAllCombinedThreshold ==
    phase = "foundAll" =>
        LET tokens == TokensOf(options, query)
        IN Range(found) =
             {k \in Keys : /\ CombinedWeight(shards, tokens, k) >= 1
                           /\ MeetsThreshold(options, Len(tokens),
                                             CombinedWeight(shards, tokens, k))}

\* findAll returned a key whose share is below the threshold in every shard.
C11_Witness ==
    /\ phase = "foundAll"
    /\ \E k \in Range(found) : \A n \in DOMAIN shards :
          ~MeetsThreshold(options, Len(TokensOf(options, query)),
                          Occurrences(shards[n], TokensOf(options, query), k))

\* The posting-list entries a shard holds, summed over its tokens.
ShardSize(shard) ==
    Cardinality(UNION {{<<token, j>> : j \in DOMAIN shard[token]} : token \in DOMAIN shard})

\* C20: no shard returned by spread(chunkSize) holds more than chunkSize * 10
\* posting-list entries.
C20_ShardWithinCap ==
    [][(phase = "build" /\ phase' = "spread") =>
          \E chunkSize \in 1..MaxChunk :
             /\ shards' \in {spread(indices, chunkSize), spreadJs(indices, chunkSize).result}
             /\ \A n \in DOMAIN shards' :
                   ShardSize(shards'[n]) <= chunkSize * CHUNK_CAP_FACTOR]_vars

\* How often x occurs in the sequence s.
TimesIn(s, x) == Cardinality({i \in DOMAIN s : s[i] = x})

\* C21: add only appends: after add(key, value) the posting list of every token
\* is its list before the call followed by key once per occurrence of the token
\* in the tokenization of value; no list is replaced, no key deduplicated, and
\* the index holds the tokens it held and those of value.
C21_AddAccumulates ==
    [][(nAdds' = nAdds + 1) =>
          \E key \in Keys, value \in Values :
             LET tokens == TokensOf(options, value)
             IN /\ DOMAIN indices' = DOMAIN indices \cup Range(tokens)
                /\ \A token \in DOMAIN indices' :
                      indices'[token] =
                         (IF token \in DOMAIN indices THEN indices[token] ELSE <<>>)
                            \o Repeat(key, TimesIn(tokens, token))]_vars

\* An add has extended a list that already held entries, and has put its key
\* twice into the list of a token its value holds twice.
C21_Witness ==
    /\ nAdds = 1
    /\ <<LA, LB>> \in DOMAIN indices /\ Len(indices[<<LA, LB>>]) = 2
    /\ <<LB, LA>> \in DOMAIN indices
    /\ Len(indices[<<LB, LA>>]) = CHUNK_CAP_FACTOR + 3

\* The text tokenizr cuts: value, case-folded when toLowcase is set.
Folded == IF tkOptions.toLowcase THEN ToLowerCase(tkValue) ELSE tkValue

\* The positions of Folded where a run of gramLen code units without a space begins.
GramStarts ==
    {p \in 1..(Len(Folded) - tkOptions.gramLen + 1) :
        \A i \in p..(p + tkOptions.gramLen - 1) : Folded[i] # SP}

\* The words of Folded as <<first, last>> positions: the maximal runs without a
\* space (the empty words between two spaces have no position and no token).
WordSpans ==
    {w \in (1..Len(Folded)) \X (1..Len(Folded)) :
        /\ w[1] <= w[2]
        /\ \A i \in w[1]..w[2] : Folded[i] # SP
        /\ w[1] = 1 \/ Folded[w[1] - 1] = SP
        /\ w[2] = Len(Folded) \/ Folded[w[2] + 1] = SP}

\* C22: the tokens of tokenizr are the contiguous substrings of length gramLen
\* of the words of the case-folded text, word after word and left to right,
\* repeated ones kept; a word of length n gives n - gramLen + 1 of them when
\* n >= gramLen and none when it is shorter.
C22_TokenizrGrams ==
    tkDone =>
        LET g == tkOptions.gramLen
            starts == SelectSeq([p \in 1..Len(Folded) |-> p], LAMBDA p : p \in GramStarts)
        IN /\ tkTokens = [n \in 1..Len(starts) |-> SubSeq(Folded, starts[n], starts[n] + g - 1)]
           /\ \A w \in WordSpans :
                 Cardinality({p \in GramStarts : w[1] <= p /\ p <= w[2]}) =
                    (IF w[2] - w[1] + 1 >= g THEN (w[2] - w[1] + 1) - g + 1 ELSE 0)

\* "bBb b" with gram length 2: "bb" twice from the first word, none from the second.
C22_Witness ==
    /\ tkDone
    /\ tkValue = <<LB, UB, LB, SP, LB>>
    /\ tkOptions = [gramLen |-> 2, toLowcase |-> TRUE]
    /\ tkTokens = << <<LB, LB>>, <<LB, LB>> >>

\* C26: spread leaves the parent's posting-list map as it was, and its shards
\* share nothing with the parent: an add on the parent after spread changes no
\* shard's lists.
C26_SpreadIndependent ==
    [][/\ (phase = "build" /\ phase' = "spread") => indices' = indices
       /\ (phase = "spread" /\ phase' = "added") => shards' = shards]_vars

\* The shards that hold entries of token.
ShardsOf(shardList, token) ==
    {n \in DOMAIN shardList : token \in DOMAIN shardList[n] /\ shardList[n][token] # <<>>}

\* The entries a shard holds for the tokens sorted before token.
Preceding(shard, token) ==
    Cardinality(UNION {{<<u, j>> : j \in DOMAIN shard[u]} :
                          u \in {u \in DOMAIN shard : StrLess(u, token)}})

\* The shards follow the sorted order of the tokens, and the shards of one token
\* are consecutive.
ShardsInTokenOrder(shardList) ==
    /\ \A n, m \in DOMAIN shardList : n < m =>
          \A a \in DOMAIN shardList[n], b \in DOMAIN shardList[m] : ~StrLess(b, a)
    /\ \A token \in TokensOver(shardList) : \A n, m \in ShardsOf(shardList, token) :
          \A x \in n..m : x \in ShardsOf(shardList, token)

\* The shards spread returned in this step are those of a call with chunkSize.
SpreadWith(chunkSize) ==
    /\ phase = "build" /\ phase' = "spread"
    /\ shards' \in {spread(indices, chunkSize), spreadJs(indices, chunkSize).result}

\* C27 as stated: the shards follow the sorted tokens, a shard is closed when the
\* next token's list would take it over chunkSize, and a list is divided across
\* shards only when it alone is longer than chunkSize * 10.
C27_DividedOnlyOverCap ==
    [][\A chunkSize \in 1..MaxChunk : SpreadWith(chunkSize) =>
          /\ ShardsInTokenOrder(shards')
          /\ \A token \in DOMAIN indices :
                Cardinality(ShardsOf(shards', token)) > 1
                   => Len(indices[token]) > chunkSize * CHUNK_CAP_FACTOR
          /\ \A n \in DOMAIN shards' :
                Cardinality(DOMAIN shards'[n]) > 1 => ShardSize(shards'[n]) <= chunkSize]_vars

\* C27, amended: the shards follow the sorted tokens, and a token's list is whole
\* inside a single shard whenever it fits the room left in the shard being
\* filled (the entries already there plus the list are at most chunkSize); a
\* list that does not fit may be divided, across consecutive shards.
C27_WholeWhenFits ==
    [][\A chunkSize \in 1..MaxChunk : SpreadWith(chunkSize) =>
          /\ ShardsInTokenOrder(shards')
          /\ \A token \in DOMAIN indices : \A n \in ShardsOf(shards', token) :
                (/\ \A m \in ShardsOf(shards', token) : n <= m
                 /\ Preceding(shards'[n], token) + Len(indices[token]) <= chunkSize)
                   => ShardsOf(shards', token) = {n}]_vars

\* A list no longer than the cap of any chunk size lies in two shards, and a
\* list that fitted lies whole beside another token's.
C27_Witness ==
    /\ phase = "spread"
    /\ \E token \in TokensOver(shards) :
          /\ Cardinality(ShardsOf(shards, token)) = 2
          /\ Len(ListOver(shards, token)) <= CHUNK_CAP_FACTOR
    /\ \E n \in DOMAIN shards : \E token \in DOMAIN shards[n] :
          /\ ShardsOf(shards, token) = {n}
          /\ Cardinality({u \in DOMAIN shards[n] : shards[n][u] # <<>>}) = 2

\* C28: cursorAll returns no empty batch and at most one batch per shard
\* completion, so at most as many batches as there are shards; and once next()
\* has returned done, every later next() returns done: no batch is added.
C28_BatchesThenDone ==
    /\ [](phase = "cursor" =>
            /\ \A n \in DOMAIN batches : batches[n] # <<>>
            /\ Len(batches) <= Len(merged)
            /\ Len(merged) <= Len(shards))
    /\ \A n \in 0..MaxShards :
          [](pc = "done" /\ Len(batches) = n
                => [](Len(batches) = n /\ pc \in {"done", "loop"}))

\* Two shards, a batch for each completion, then done.
C28_Witness ==
    /\ pc = "done"
    /\ Len(shards) = 2
    /\ Len(batches) = 2

(***************************************************************************)
(* Properties of Db.find.                                                  *)
(***************************************************************************)
\* The records of the collection the matcher accepts, in primary order.
Matching == SelectSeq(RecordsOf(collection), LAMBDA r : QueryTest(qCriteria, r, NoPath))

\* recs is ordered by the whole sort spec.
IsSorted(recs, sort) ==
    \A a, b \in DOMAIN recs : a < b => ~Before(sort, recs[b], recs[a])

\* sort, then skip, then limit.
SortSkipLimit(recs, sort, skip, limit) ==
    LET rest == Drop(SortRecords(sort, recs), skip)
    IN  IF limit # 0 THEN Take(rest, limit) ELSE rest

\* C5: when no index serves the criteria or the sort, find returns exactly the
\* records the matcher accepts, sorted by sort, without the first skip of them
\* and cut to limit, however the full scan is batched.
C5_MissedFindIsMatcherResult ==
    (dbpc = "done" /\ search.missed)
        => returned = SortSkipLimit(Matching, qSort, qSkip, qLimit)

\* C6: every record find returns, and every record it has collected, passes
\* query.test for the criteria without its custom operators.
C6_ReturnedPassTest ==
    /\ \A n \in DOMAIN result : QueryTest(qCriteria, result[n], NoPath)
    /\ \A n \in DOMAIN returned : QueryTest(qCriteria, returned[n], NoPath)

\* An index-served find returned records after the stream had delivered the key
\* of a record the matcher rejects.
C6_Witness ==
    /\ dbpc = "done"
    /\ ~search.missed
    /\ returned # <<>>
    /\ \E k \in Range(delivered) : ~QueryTest(qCriteria, collection[k], NoPath)

\* C7: with a limit L > 0 find returns at most L records, for every plan and
\* every batching.
C7_AtMostLimit ==
    (dbpc = "done" /\ qLimit > 0) => Len(returned) <= qLimit

\* C8: in an index-served find that did not reach its limit, every record that
\* passes the criteria and whose key the stream delivered is returned, whatever
\* the size of the batches.  Stated for a find that skips nothing and whose
\* plan has no cursor through the primary index, so that no key is cached.
C8_DeliveredMatchesReturned ==
    (/\ dbpc = "done"
     /\ ~search.missed
     /\ ~search.primary
     /\ qSkip = 0
     /\ (qLimit = 0 \/ iFind < qLimit))
        => \A k \in Range(delivered) :
              QueryTest(qCriteria, collection[k], NoPath)
                  => collection[k] \in Range(returned)

\* C9: when some field of the sort has no index, the plan is non-exact: the
\* collection does not stop at limit, and the returned list is ordered by the
\* whole sort spec.
C9_UnindexedSortIsGreedy ==
    (/\ dbpc = "done"
     /\ \E n \in DOMAIN qSort : FindByPath(qSort[n][1]) = 0)
        => /\ ~stopped
           /\ IsSorted(returned, qSort)

\* The entries of a criteria that are a logical combinator over an array.
LogicalEntries(crit) ==
    {n \in DOMAIN crit : crit[n].key \in logicalOperators /\ crit[n].kind = "arr"}

\* The plans of the sub-criteria of a combinator entry, compiled on their own.
SubPlans(coll, e, sort) ==
    [j \in DOMAIN e.sub |-> buildIndexSearch(coll, e.sub[j], sort, NoPath, FALSE)]

\* C15: the plan of a criteria with `$and` / `$or` over an array takes in the
\* streams of the sub-criteria: when an index serves a sub-criteria of `$and`
\* (every sub-criteria of `$or`), the plan is not missed and its candidate
\* stream lies within each served stream of `$and` (within the union for `$or`).
C15_LogicalStreamsContribute ==
    [][(dbpc = "idle" /\ dbpc' # "idle") =>
          \A n \in LogicalEntries(qCriteria') :
             LET e == qCriteria'[n]
                 plans == SubPlans(collection, e, qSort')
                 served == {j \in DOMAIN plans : ~plans[j].missed}
             IN  /\ (e.key = "$and" /\ served # {}) =>
                       /\ ~search'.missed
                       /\ \A j \in served : Range(stream') \subseteq Range(plans[j].keys)
                 /\ (e.key = "$or" /\ served = DOMAIN plans) =>
                       /\ ~search'.missed
                       /\ Range(stream') \subseteq
                             UNION {Range(plans[j].keys) : j \in served}]_vars

\* The criteria as given, a custom operator read as "the record's key is among
\* the keys its index yields for the clause's value".
RECURSIVE Constrains(_, _, _)
Constrains(crit, rec, field) ==
    \A n \in DOMAIN crit :
        LET e == crit[n] IN
        CASE e.key \in logicalOperators /\ e.kind = "arr" ->
                IF e.key = "$and"
                THEN \A j \in DOMAIN e.sub : Constrains(e.sub[j], rec, field)
                ELSE \E j \in DOMAIN e.sub : Constrains(e.sub[j], rec, field)
          [] e.key \in customOperators ->
                rec.id \in Range(indexCursor(collection,
                                             SchemaIndices[FindLastByPath(e.key)].indice,
                                             TRUE, e.lit, "$eq", 1))
          [] e.kind = "obj" /\ ~isOperator(e.key) -> Constrains(e.sub[1], rec, e.key)
          [] OTHER -> QueryTest(<<e>>, rec, field)

\* C16: when the planner has removed a custom-operator clause from the criteria
\* the matcher sees, at any depth, the clause still constrains the result through
\* its index: every returned record satisfies the criteria as given.
C16_RemovedClauseStillConstrains ==
    (dbpc = "done" /\ qCriteria # qGiven)
        => \A n \in DOMAIN returned : Constrains(qGiven, returned[n], NoPath)

\* Every clause of the criteria resolves to a registered index: a literal and a
\* custom operator by their path, an operator by an index of the field's path
\* that serves it, a combinator by all its sub-criteria.
RECURSIVE ClausesResolved(_, _)
ClausesResolved(crit, path) ==
    \A n \in DOMAIN crit :
        LET e == crit[n] IN
        CASE e.key \in logicalOperators /\ e.kind = "arr" ->
                \A j \in DOMAIN e.sub : ClausesResolved(e.sub[j], NoPath)
          [] e.key \in customOperators -> FindLastByPath(e.key) # 0
          [] isOperator(e.key) -> FindServing(e.key, path) # 0
          [] e.kind = "obj" -> ClausesResolved(e.sub[1], e.key)
          [] OTHER -> FindByPath(e.key) # 0

SortResolved(sort) == \A n \in DOMAIN sort : FindByPath(sort[n][1]) # 0

\* C17: the plan is exact (search.greed is false) when every clause and every
\* sort field resolve to a registered index, and non-exact as soon as a clause
\* or a sort field has no registration to resolve to.
C17_ExactIffAllResolved ==
    dbpc \notin {"off", "idle"}
        => (~search.greed <=> (ClausesResolved(qGiven, NoPath) /\ SortResolved(qSort)))

\* C18: when some clause has no index to serve it while the plan is index-served,
\* the clause is enforced by the re-check only and narrows nothing else: find
\* returns every record that satisfies the criteria as given.  Stated without
\* skip and limit and for criteria without combinators.
C18_UnservedClauseOnlyRechecked ==
    (/\ dbpc = "done"
     /\ ~search.missed
     /\ qSkip = 0
     /\ qLimit = 0
     /\ LogicalEntries(qGiven) = {}
     /\ ~ClausesResolved(qGiven, NoPath))
        => \A k \in Ids :
              Constrains(qGiven, collection[k], NoPath)
                  => collection[k] \in Range(returned)

\* A combinator of the criteria, at any depth, has a value that is not an array.
RECURSIVE Malformed(_)
Malformed(crit) ==
    \E n \in DOMAIN crit :
        \/ crit[n].key \in logicalOperators /\ crit[n].kind # "arr"
        \/ \E j \in DOMAIN crit[n].sub : Malformed(crit[n].sub[j])

\* C19: for a criteria with a combinator whose value is not an array, planning
\* fails: find ends with an error, buildIndexSearch having returned no plan and
\* created no index cursor.
C19_MalformedFailsFast ==
    (dbpc \notin {"off", "idle"} /\ Malformed(qGiven))
        => (dbpc = "failed" /\ search = NoPlan)

\* The records find has had before it and query.test accepts: those of the
\* collection on the full-scan path, those of the keys the stream delivered
\* otherwise, in the order they came.
Validated ==
    IF search.missed THEN Matching
    ELSE SelectSeq([n \in DOMAIN delivered |-> collection[delivered[n]]],
                   LAMBDA r : QueryTest(qCriteria, r, NoPath))

\* C23: when the plan is non-exact, no record that passes the matcher is dropped
\* before the finalization: find returns the validated records sorted by sort,
\* without the first skip of them, cut to limit.
C23_GreedyFinalizesAll ==
    (dbpc = "done" /\ search.greed)
        => returned = SortSkipLimit(Validated, qSort, qSkip, qLimit)

\* C24: a record the primary-index cursor has put into search.caches is not
\* lost to the result by being cached: when find has ended without skipping and
\* with fewer records than limit, every cached record that passes the matcher
\* is returned.
C24_CachedRecordsReachResult ==
    (/\ dbpc = "done"
     /\ qSkip = 0
     /\ (qLimit = 0 \/ Len(returned) < qLimit))
        => \A k \in caches :
              QueryTest(qCriteria, collection[k], NoPath)
                  => collection[k] \in Range(returned)

\* The records of the plan's whole candidate stream that pass the matcher, in
\* stream order.
PassingCandidates ==
    SelectSeq([n \in DOMAIN (delivered \o stream) |-> collection[(delivered \o stream)[n]]],
              LAMBDA r : QueryTest(qCriteria, r, NoPath))

\* C25: an exact, index-served find with skip s and limit l leaves out exactly
\* the first s candidates that pass the matcher, in stream order, and returns
\* the next l of them, or all that remain when there are fewer (or no limit).
C25_ExactSkipLimit ==
    (dbpc = "done" /\ ~search.greed /\ ~search.missed)
        => returned = (IF qLimit # 0
                       THEN Take(Drop(PassingCandidates, qSkip), qLimit)
                       ELSE Drop(PassingCandidates, qSkip))

(***************************************************************************)
(* Properties of the lazily loaded index.                                  *)
(***************************************************************************)
\* C12: options.load is invoked at most once over the life of the index,
\* however the queries overlap (stated for a load function that never rejects).
C12_LoadInvokedOnce ==
    (hasLoad /\ rejections = 0) => loadCalls <= 1

C14_LoadRejectionRetried ==
    [][/\ (rejections' = rejections + 1) =>
             /\ isLoaded' = isLoaded
             /\ lazyIndices' = lazyIndices
             /\ \E r \in Queries : qpc[r] = "loading" /\ qpc'[r] = "failed"
       /\ \A q \in Queries : (qpc[q] = "idle" /\ qpc'[q] # "idle" /\ ~isLoaded /\ hasLoad) =>
             /\ qpc'[q] = "loading"
             /\ loadCalls' = loadCalls + 1]_vars

\* A query started after a rejection is awaiting a second invocation of
\* options.load, the index still unloaded.
C14_Witness ==
    /\ ~isLoaded
    /\ \E q \in Queries : qSeen[q] >= 1 /\ qpc[q] = "loading"
    /\ loadCalls >= 2

====
